---- MODULE Spec2Model ----
(***************************************************************************)
(* The 16550 UART device of rv8 (src/emu/device-uart.h): the register bank *)
(* uart_mmio_device and the console_thread that bridges it to the host     *)
(* terminal.  Two threads of control: the emulator's foreground thread     *)
(* (load_8, store_8, service, suspend, resume, shutdown) and the console   *)
(* thread (mainloop).                                                      *)
(***************************************************************************)
EXTENDS Integers, Sequences, FiniteSets, TLC

(***************************************************************************)
(* Bounds of the model.                                                    *)
(***************************************************************************)
\* capacity of the input queue; the code builds queue(1024) (line 28), the
\* model keeps the same bounded queue at a size TLC can fill.
QueueLimit == 2
\* capacity of the wakeup pipe in bytes (set by the host kernel, not the code).
PipeCap == 2
\* number of stores to THR the guest makes.
MaxWrites == 3
\* number of bytes the host delivers on standard input.
MaxInput == 3

(***************************************************************************)
(* Program constants (the enum of uart_mmio_device, and unistd.h).         *)
(***************************************************************************)
REG_RBR == 0
REG_THR == 0
REG_DLL == 0
REG_IER == 1
REG_DLM == 1
REG_IIR == 2
REG_FCR == 2
REG_LCR == 3
REG_MCR == 4
REG_LSR == 5
REG_MSR == 6
REG_SCR == 7
IER_ERBDA == 1
IER_MASK == 15
IIR_TX_RDY == 2
IIR_RX_RDY == 4
IIR_RD_LSR == 6
LCR_DLAB == 128
LSR_DA == 1
LSR_RE == 32
MSR_DSR == 32
MSR_DCD == 128

(***************************************************************************)
(* Bytes and bit operations on u8.                                         *)
(***************************************************************************)
\* bit i of the 8-bit value a
Bit(a, i) == (a \div (2 ^ i)) % 2

\* a & b on 8-bit values
BitAnd(a, b) ==
    Bit(a, 0) * Bit(b, 0) + 2 * Bit(a, 1) * Bit(b, 1)
    + 4 * Bit(a, 2) * Bit(b, 2) + 8 * Bit(a, 3) * Bit(b, 3)
    + 16 * Bit(a, 4) * Bit(b, 4) + 32 * Bit(a, 5) * Bit(b, 5)
    + 64 * Bit(a, 6) * Bit(b, 6) + 128 * Bit(a, 7) * Bit(b, 7)

\* a & mask # 0, for a mask of one bit
TestBit(a, mask) == (a \div mask) % 2 = 1

\* a & mask, for a mask of the low bits (mask + 1 a power of two)
LowBits(a, mask) == a % (mask + 1)

\* a | b on 8-bit values
BitOr(a, b) == a + b - BitAnd(a, b)

\* unsigned char -> char, the conversion at queue.push_back(c) (line 69)
ToChar(b) == IF b > 127 THEN b - 256 ELSE b

\* char -> u8, the conversion at the return of read_char() (line 173)
ToU8(ch) == (ch + 256) % 256

(***************************************************************************)
(* Host terminal modes: a termios value is the set of c_lflag flags set.   *)
(***************************************************************************)
\* the mode of the host terminal before the console thread is created
OrigTio == {"ICANON", "ECHO", "ISIG"}

\* contents an uninitialised struct termios member may hold
UninitTio == {{}, OrigTio}

\* new_tio.c_lflag &= (~ICANON & ~ECHO)   (line 125)
RawOf(tio) == tio \ {"ICANON", "ECHO"}

(***************************************************************************)
(* Inputs of the model.                                                    *)
(***************************************************************************)
\* the k-th byte the host delivers on standard input
InputByte(k) == (65 + 127 * (k - 1)) % 256

VARIABLES
    com,        \* the UART register set (struct com)
    val,        \* the value the last load_8 left in its out-parameter
    signalled,  \* whether the last service() call called plic->signal_irq
    queue,      \* console_thread::queue, oldest first (chars)
    pipefds,    \* "unset" (both 0), "open" (after open_pipe), "closed"
    pipe,       \* bytes in the wakeup pipe, oldest first
    hostin,     \* bytes pending on the host's standard input, oldest first
    out,        \* bytes written to descriptor STDIN_FILENO (the host terminal)
    running,    \* console_thread::running
    suspended,  \* console_thread::suspended
    tio,        \* the current mode of the host terminal
    old_tio,    \* console_thread::old_tio
    new_tio,    \* console_thread::new_tio
    revents,    \* <<pollfds[0].revents & POLLIN, pollfds[1].revents & POLLIN>>
    tpc,        \* where the console thread is in mainloop
    fpc,        \* where the foreground thread is (idle, or inside a call)
    wfd,        \* what the last write on pipefds[1] was issued on
    written,    \* history: bytes the guest stored to THR, in order
    delivered,  \* history: number of bytes the host has delivered
    rbrlog,     \* history: values returned by loads of RBR taken with has_char()
    scen        \* instrumentation: calls of the end-to-end scenario made so far

regs == <<com, val, signalled>>
bridge == <<queue, pipefds, pipe, hostin, out, running, suspended, tio, old_tio,
            new_tio, revents, tpc, wfd>>
hist == <<written, delivered, rbrlog>>
instr == <<scen>>
vars == <<com, val, signalled, queue, pipefds, pipe, hostin, out, running,
          suspended, tio, old_tio, new_tio, revents, tpc, fpc, wfd, written,
          delivered, rbrlog, scen>>

(***************************************************************************)
(* queue_atomic<char>: a bounded FIFO.                                     *)
(***************************************************************************)
\* queue.size()
queue_size(q) == Len(q)

\* queue.push_back(elem): appends, or refuses when the queue is full
push_back(q, elem) == IF Len(q) < QueueLimit THEN Append(q, elem) ELSE q

\* queue.pop_front(): the oldest element (the queue without it is Tail)
pop_front(q) == Head(q)

(***************************************************************************)
(* console_thread: the state after construction.                           *)
(***************************************************************************)
Init ==
    /\ com = [rbr |-> 0, thr |-> 0, ier |-> 0, iir |-> 0, fcr |-> 0, lcr |-> 0,
              mcr |-> 0, lsr |-> 0, msr |-> 0, scr |-> 0, dll |-> 0, dlm |-> 0]
    /\ val = 0
    /\ signalled = FALSE
    /\ queue = <<>>
    /\ pipefds = "unset"
    /\ pipe = <<>>
    /\ hostin = <<>>
    /\ out = <<>>
    /\ running = TRUE
    /\ suspended = FALSE
    /\ tio = OrigTio
    /\ old_tio \in UninitTio
    /\ new_tio = {}
    /\ revents = <<FALSE, FALSE>>
    /\ tpc = "open_pipe"
    /\ fpc = "idle"
    /\ wfd = "none"
    /\ written = <<>>
    /\ delivered = 0
    /\ rbrlog = <<>>
    /\ scen = 0

(***************************************************************************)
(* console_thread::mainloop, one action per step of the thread.            *)
(***************************************************************************)
\* block_signals(); open_pipe();
t_open_pipe ==
    /\ tpc = "open_pipe"
    /\ pipefds' = "open"
    /\ pipe' = <<>>
    /\ tpc' = "configure_get"
    /\ UNCHANGED <<regs, hist, instr, fpc, queue, hostin, out, running, suspended, tio,
                   old_tio, new_tio, revents, wfd>>

\* configure_console(): tcgetattr(STDIN_FILENO, &old_tio)
t_configure_get ==
    /\ tpc = "configure_get"
    /\ old_tio' = tio
    /\ tpc' = "configure_set"
    /\ UNCHANGED <<regs, hist, instr, fpc, queue, pipefds, pipe, hostin, out, running,
                   suspended, tio, new_tio, revents, wfd>>

\* configure_console(): new_tio = old_tio; clear ICANON and ECHO; tcsetattr
t_configure_set ==
    /\ tpc = "configure_set"
    /\ new_tio' = RawOf(old_tio)
    /\ tio' = RawOf(old_tio)
    /\ tpc' = "while"
    /\ UNCHANGED <<regs, hist, instr, fpc, queue, pipefds, pipe, hostin, out, running,
                   suspended, old_tio, revents, wfd>>

\* while (running)
t_while ==
    /\ tpc = "while"
    /\ tpc' = IF running THEN "poll" ELSE "restore_console"
    /\ UNCHANGED <<regs, hist, instr, fpc, queue, pipefds, pipe, hostin, out, running,
                   suspended, tio, old_tio, new_tio, revents, wfd>>

\* poll(pollfds, 2, -1) returns with at least one source readable
t_poll ==
    /\ tpc = "poll"
    /\ pipe # <<>> \/ hostin # <<>>
    /\ revents' = <<pipe # <<>>, hostin # <<>> >>
    /\ tpc' = "check_running"
    /\ UNCHANGED <<regs, hist, instr, fpc, queue, pipefds, pipe, hostin, out, running,
                   suspended, tio, old_tio, new_tio, wfd>>

\* poll(pollfds, 2, -1) is interrupted by a signal: -1 with errno == EINTR
t_poll_eintr ==
    /\ tpc = "poll"
    /\ revents' = <<FALSE, FALSE>>
    /\ tpc' = "check_running"
    /\ UNCHANGED <<regs, hist, instr, fpc, queue, pipefds, pipe, hostin, out, running,
                   suspended, tio, old_tio, new_tio, wfd>>

\* if (!running) break;
t_check_running ==
    /\ tpc = "check_running"
    /\ tpc' = IF running THEN "relay" ELSE "restore_console"
    /\ UNCHANGED <<regs, hist, instr, fpc, queue, pipefds, pipe, hostin, out, running,
                   suspended, tio, old_tio, new_tio, revents, wfd>>

\* if (pollfds[0].revents & POLLIN): read one byte of the pipe and write it
\* to STDIN_FILENO
t_relay ==
    /\ tpc = "relay"
    /\ IF revents[1]
       THEN /\ pipe' = Tail(pipe)
            /\ out' = Append(out, Head(pipe))
       ELSE UNCHANGED <<pipe, out>>
    /\ tpc' = "check_suspended"
    /\ UNCHANGED <<regs, hist, instr, fpc, queue, pipefds, hostin, running, suspended,
                   tio, old_tio, new_tio, revents, wfd>>

\* if (suspended) continue;
t_check_suspended ==
    /\ tpc = "check_suspended"
    /\ tpc' = IF suspended THEN "while" ELSE "stdin"
    /\ UNCHANGED <<regs, hist, instr, fpc, queue, pipefds, pipe, hostin, out, running,
                   suspended, tio, old_tio, new_tio, revents, wfd>>

\* if (pollfds[1].revents & POLLIN): read one byte of stdin, queue.push_back
t_stdin ==
    /\ tpc = "stdin"
    /\ IF revents[2]
       THEN /\ hostin' = Tail(hostin)
            /\ queue' = push_back(queue, ToChar(Head(hostin)))
       ELSE UNCHANGED <<hostin, queue>>
    /\ tpc' = "while"
    /\ UNCHANGED <<regs, hist, instr, fpc, pipefds, pipe, out, running, suspended, tio,
                   old_tio, new_tio, revents, wfd>>

\* restore_console(): tcsetattr(STDIN_FILENO, TCSANOW, &old_tio)
t_restore_console ==
    /\ tpc = "restore_console"
    /\ tio' = old_tio
    /\ tpc' = "close_pipe"
    /\ UNCHANGED <<regs, hist, instr, fpc, queue, pipefds, pipe, hostin, out, running,
                   suspended, old_tio, new_tio, revents, wfd>>

\* close_pipe(); the thread function returns
t_close_pipe ==
    /\ tpc = "close_pipe"
    /\ pipefds' = "closed"
    /\ pipe' = <<>>
    /\ tpc' = "done"
    /\ UNCHANGED <<regs, hist, instr, fpc, queue, hostin, out, running, suspended, tio,
                   old_tio, new_tio, revents, wfd>>

mainloop ==
    \/ t_open_pipe
    \/ t_configure_get
    \/ t_configure_set
    \/ t_while
    \/ t_poll
    \/ t_poll_eintr
    \/ t_check_running
    \/ t_relay
    \/ t_check_suspended
    \/ t_stdin
    \/ t_restore_console
    \/ t_close_pipe

(***************************************************************************)
(* The host: a byte becomes available on standard input.                   *)
(***************************************************************************)
host_input ==
    /\ delivered' = delivered + 1
    /\ hostin' = Append(hostin, InputByte(delivered + 1))
    /\ UNCHANGED <<regs, instr, fpc, queue, pipefds, pipe, out, running,
                   suspended, tio, old_tio, new_tio, revents, tpc, wfd, written,
                   rbrlog>>

(***************************************************************************)
(* console_thread: the calls the foreground thread makes.                  *)
(***************************************************************************)
\* has_char()
has_char(q) == queue_size(q) > 0

\* read_char(): the u8 it returns (the queue loses its head when non-empty)
read_char(q) == IF queue_size(q) > 0 THEN ToU8(pop_front(q)) ELSE 0

\* write(pipefds[1], &c, 1) as issued by write_char() and shutdown().  Before
\* open_pipe() pipefds[1] is 0, the terminal's descriptor; the pipe is
\* O_NONBLOCK, so a write to a full pipe fails and the byte is dropped; after
\* close_pipe() the descriptor is closed and the write fails.
fd_write(c) ==
    /\ wfd' = pipefds
    /\ pipe' = IF pipefds = "open" /\ Len(pipe) < PipeCap
               THEN Append(pipe, c) ELSE pipe
    /\ out' = IF pipefds = "unset" THEN Append(out, c) ELSE out

\* write_char(c)
write_char(c) == fd_write(c)

\* suspend(): restore_console()
suspend_restore ==
    /\ fpc = "idle"
    /\ tio' = old_tio
    /\ fpc' = "suspend_flag"
    /\ UNCHANGED <<regs, hist, instr, queue, pipefds, pipe, hostin, out, running,
                   suspended, old_tio, new_tio, revents, tpc, wfd>>

\* suspend(): suspended = true
suspend_flag ==
    /\ fpc = "suspend_flag"
    /\ suspended' = TRUE
    /\ fpc' = "idle"
    /\ UNCHANGED <<regs, hist, instr, queue, pipefds, pipe, hostin, out, running,
                   tio, old_tio, new_tio, revents, tpc, wfd>>

\* resume(): configure_console(): tcgetattr(STDIN_FILENO, &old_tio)
resume_get ==
    /\ fpc = "idle"
    /\ old_tio' = tio
    /\ fpc' = "resume_set"
    /\ UNCHANGED <<regs, hist, instr, queue, pipefds, pipe, hostin, out, running,
                   suspended, tio, new_tio, revents, tpc, wfd>>

\* resume(): configure_console(): new_tio = old_tio; clear flags; tcsetattr
resume_set ==
    /\ fpc = "resume_set"
    /\ new_tio' = RawOf(old_tio)
    /\ tio' = RawOf(old_tio)
    /\ fpc' = "resume_flag"
    /\ UNCHANGED <<regs, hist, instr, queue, pipefds, pipe, hostin, out, running,
                   suspended, old_tio, revents, tpc, wfd>>

\* resume(): suspended = false
resume_flag ==
    /\ fpc = "resume_flag"
    /\ suspended' = FALSE
    /\ fpc' = "idle"
    /\ UNCHANGED <<regs, hist, instr, queue, pipefds, pipe, hostin, out, running,
                   tio, old_tio, new_tio, revents, tpc, wfd>>

\* shutdown(): running = false
shutdown_flag ==
    /\ fpc = "idle"
    /\ running' = FALSE
    /\ fpc' = "shutdown_write"
    /\ UNCHANGED <<regs, hist, instr, queue, pipefds, pipe, hostin, out,
                   suspended, tio, old_tio, new_tio, revents, tpc, wfd>>

\* shutdown() without its write to the pipe: nothing wakes the thread's poll
shutdown_nowrite ==
    /\ fpc = "shutdown_write"
    /\ fpc' = "shutdown_join"
    /\ UNCHANGED <<regs, hist, instr, queue, pipefds, pipe, hostin, out, running,
                   suspended, tio, old_tio, new_tio, revents, tpc, wfd>>

\* shutdown(): write a null byte to pipefds[1]
shutdown_write ==
    /\ fpc = "shutdown_write"
    /\ fd_write(0)
    /\ fpc' = "shutdown_join"
    /\ UNCHANGED <<regs, hist, instr, queue, pipefds, hostin, running, suspended,
                   tio, old_tio, new_tio, revents, tpc>>

\* shutdown(): thread.join() returns once the thread function has returned
shutdown_join ==
    /\ fpc = "shutdown_join"
    /\ tpc = "done"
    /\ fpc' = "joined"
    /\ UNCHANGED <<regs, hist, instr, bridge>>

\* The terminal side of the bridge as one value b = [tio, old_tio, new_tio,
\* suspended], and what a whole call makes of it when no step of the console
\* thread comes between.
\* configure_console()
configure_console(b) ==
    [b EXCEPT !.old_tio = b.tio, !.new_tio = RawOf(b.tio), !.tio = RawOf(b.tio)]

\* restore_console()
restore_console(b) == [b EXCEPT !.tio = b.old_tio]

\* suspend(), start to return
suspend_value(b) == [restore_console(b) EXCEPT !.suspended = TRUE]

\* resume(), start to return
resume_value(b) == [configure_console(b) EXCEPT !.suspended = FALSE]

\* the terminal side of the bridge in the current state
console_state ==
    [tio |-> tio, old_tio |-> old_tio, new_tio |-> new_tio,
     suspended |-> suspended]

(***************************************************************************)
(* uart_mmio_device.                                                       *)
(***************************************************************************)
\* com.lcr & LCR_DLAB, for the register set c
Banked(c) == TestBit(c.lcr, LCR_DLAB)

DLAB == Banked(com)

\* service() without the test of the interrupt enable bit
service_noier ==
    /\ fpc = "idle"
    /\ signalled' = has_char(queue)
    /\ UNCHANGED <<com, val, hist, bridge, fpc>>

\* service()
service ==
    /\ fpc = "idle"
    /\ signalled' = (TestBit(com.ier, IER_ERBDA) /\ has_char(queue))
    /\ UNCHANGED <<com, val, hist, bridge, fpc>>

\* load_8 returning RBR before the byte is popped into it
load_stale(c, q, va, v0) ==
    IF Banked(c)
    THEN CASE va = REG_DLL -> c.dll
           [] va = REG_DLM -> c.dlm
           [] OTHER -> v0
    ELSE CASE va = REG_RBR -> c.rbr
           [] va = REG_IER -> IF has_char(q) THEN IIR_RD_LSR ELSE IIR_TX_RDY
           [] va = REG_IIR -> IF has_char(q) THEN IIR_RD_LSR ELSE IIR_TX_RDY
           [] va = REG_LCR -> c.lcr
           [] va = REG_MCR -> c.mcr
           [] va = REG_LSR -> BitOr(LSR_RE, IF has_char(q) THEN LSR_DA ELSE 0)
           [] va = REG_MSR -> BitOr(MSR_DCD, MSR_DSR)
           [] va = REG_SCR -> c.scr
           [] OTHER -> 0

\* load_8: what val holds on return, for the registers c and the queue q;
\* v0 is what the caller's val holds at the call
load_value(c, q, va, v0) ==
    IF Banked(c)
    THEN CASE va = REG_DLL -> c.dll
           [] va = REG_DLM -> c.dlm
           [] OTHER -> v0
    ELSE CASE va = REG_RBR -> IF has_char(q) THEN read_char(q) ELSE c.rbr
           \* case REG_IER: val = com.ier; has no break and falls into REG_IIR
           [] va = REG_IER -> IF has_char(q) THEN IIR_RD_LSR ELSE IIR_TX_RDY
           [] va = REG_IIR -> IF has_char(q) THEN IIR_RD_LSR ELSE IIR_TX_RDY
           [] va = REG_LCR -> c.lcr
           [] va = REG_MCR -> c.mcr
           [] va = REG_LSR -> BitOr(LSR_RE, IF has_char(q) THEN LSR_DA ELSE 0)
           [] va = REG_MSR -> BitOr(MSR_DCD, MSR_DSR)
           [] va = REG_SCR -> c.scr
           [] OTHER -> 0

\* load_8(va, val)
load_8(va, v0) ==
    /\ fpc = "idle"
    /\ val' = load_value(com, queue, va, v0)
    /\ IF ~DLAB /\ va = REG_RBR /\ has_char(queue)
       THEN /\ com' = [com EXCEPT !.rbr = read_char(queue)]
            /\ queue' = Tail(queue)
            /\ rbrlog' = Append(rbrlog, read_char(queue))
       ELSE UNCHANGED <<com, queue, rbrlog>>
    /\ UNCHANGED <<signalled, fpc, pipefds, pipe, hostin, out, running, suspended,
                   tio, old_tio, new_tio, revents, tpc, wfd, written, delivered>>

\* store_8 without the divisor latch bank: every store goes to the unbanked
\* registers
store_unbanked(c, va, v) ==
    CASE va = REG_THR -> [c EXCEPT !.thr = v]
      [] va = REG_IER -> [c EXCEPT !.ier = LowBits(v, IER_MASK)]
      [] va = REG_LCR -> [c EXCEPT !.lcr = v]
      [] va = REG_MCR -> [c EXCEPT !.mcr = v]
      [] va = REG_SCR -> [c EXCEPT !.scr = v]
      [] OTHER -> c

\* store_8 without the mask at the store to IER
store_nomask(c, va, v) ==
    IF Banked(c)
    THEN CASE va = REG_DLL -> [c EXCEPT !.dll = v]
           [] va = REG_DLM -> [c EXCEPT !.dlm = v]
           [] OTHER -> c
    ELSE CASE va = REG_THR -> [c EXCEPT !.thr = v]
           [] va = REG_IER -> [c EXCEPT !.ier = v]
           [] va = REG_LCR -> [c EXCEPT !.lcr = v]
           [] va = REG_MCR -> [c EXCEPT !.mcr = v]
           [] va = REG_SCR -> [c EXCEPT !.scr = v]
           [] OTHER -> c

\* store_8: the register set after the store
store_value(c, va, v) ==
    IF Banked(c)
    THEN CASE va = REG_DLL -> [c EXCEPT !.dll = v]
           [] va = REG_DLM -> [c EXCEPT !.dlm = v]
           [] OTHER -> c
    ELSE CASE va = REG_THR -> [c EXCEPT !.thr = v]
           [] va = REG_IER -> [c EXCEPT !.ier = LowBits(v, IER_MASK)]
           [] va = REG_LCR -> [c EXCEPT !.lcr = v]
           [] va = REG_MCR -> [c EXCEPT !.mcr = v]
           [] va = REG_SCR -> [c EXCEPT !.scr = v]
           \* REG_FCR, REG_LSR, REG_MSR: ignore writes
           [] OTHER -> c

\* store_8(va, val)
store_8(va, v) ==
    /\ fpc = "idle"
    /\ com' = store_value(com, va, v)
    /\ IF ~DLAB /\ va = REG_THR
       THEN /\ write_char(v)
            /\ written' = Append(written, v)
       ELSE UNCHANGED <<pipe, out, wfd, written>>
    /\ UNCHANGED <<val, signalled, fpc, queue, pipefds, hostin, running,
                   suspended, tio, old_tio, new_tio, revents, tpc, delivered,
                   rbrlog>>

(***************************************************************************)
(* Specifications.  Each one runs the console thread and the host against  *)
(* a foreground thread that makes some of the device's calls.  The history *)
(* variables are capped, and the scenario is counted, in the callers,      *)
(* never in the operations.                                                *)
(***************************************************************************)
suspend == suspend_restore \/ suspend_flag

resume == resume_get \/ resume_set \/ resume_flag

shutdown == shutdown_flag \/ shutdown_write \/ shutdown_join

\* every step of mainloop but the spurious return of poll
mainloop_run ==
    \/ t_open_pipe
    \/ t_configure_get
    \/ t_configure_set
    \/ t_while
    \/ t_poll
    \/ t_check_running
    \/ t_relay
    \/ t_check_suspended
    \/ t_stdin
    \/ t_restore_console
    \/ t_close_pipe

\* the steps of mainloop while the device lives (running stays true)
mainloop_alive ==
    \/ t_open_pipe
    \/ t_configure_get
    \/ t_configure_set
    \/ t_while
    \/ t_poll
    \/ t_poll_eintr
    \/ t_check_running
    \/ t_relay
    \/ t_check_suspended
    \/ t_stdin

\* values the guest stores to THR
ThrVals == {65, 131}

\* values the guest stores at address va
RegVals(va) == IF va = REG_LCR THEN {3, 131} ELSE {131}

\* every value the guest stores
AllVals == {0, 1, 3, 65, 131}

\* what the caller's variable holds when it is passed to load_8 as val
CallerVals == {0, 170}

\* the guest transmits: a store to THR
guest_thr ==
    \E v \in ThrVals :
        store_8(REG_THR, v) /\ Len(written') <= MaxWrites /\ UNCHANGED instr

\* the guest receives: a load of RBR
guest_rbr == \E v0 \in CallerVals : load_8(REG_RBR, v0) /\ UNCHANGED instr

\* the host delivers a byte
host == host_input /\ delivered' <= MaxInput

\* The console bridge: the guest transmits and receives while the emulator
\* suspends, resumes and shuts the console down.
Next ==
    \/ guest_thr
    \/ guest_rbr
    \/ suspend
    \/ resume
    \/ shutdown
    \/ mainloop
    \/ host

Spec == Init /\ [][Next]_vars

\* The register bank: the guest loads and stores every register and the
\* emulator calls service(), while the device lives.
RegWrites == 1
RegInput == 1

guest_store ==
    \E va \in 0..7 : \E v \in RegVals(va) :
        store_8(va, v) /\ Len(written') <= RegWrites /\ UNCHANGED instr

guest_load == \E va \in 0..7, v0 \in CallerVals : load_8(va, v0) /\ UNCHANGED instr

guest_service == service /\ UNCHANGED instr

reg_host == host_input /\ delivered' <= RegInput

NextRegs ==
    \/ guest_store
    \/ guest_load
    \/ guest_service
    \/ mainloop_alive
    \/ reg_host

SpecRegs == Init /\ [][NextRegs]_vars

\* The guest programs the registers: stores to every register, no loads.
NextStore ==
    \/ guest_store
    \/ mainloop_alive
    \/ reg_host

SpecStore == Init /\ [][NextStore]_vars

\* The receive interrupt: the guest enables and disables interrupts and
\* drains the input buffer while the emulator calls service().
IerVals == {2, 131}

irq_store ==
    \/ \E v \in IerVals : store_8(REG_IER, v) /\ UNCHANGED instr
    \/ \E v \in RegVals(REG_LCR) : store_8(REG_LCR, v) /\ UNCHANGED instr

NextService ==
    \/ irq_store
    \/ guest_rbr
    \/ guest_service
    \/ mainloop_alive
    \/ reg_host

SpecService == Init /\ [][NextService]_vars

\* The interrupt enable register: the guest stores to IER and LCR and loads
\* every register while the emulator calls service().
NextIer ==
    \/ irq_store
    \/ guest_load
    \/ guest_service
    \/ mainloop_alive
    \/ reg_host

SpecIer == Init /\ [][NextIer]_vars

\* The receive buffer register: the guest loads RBR and LSR and sets DLAB
\* while the host types.
RbrInput == 2

rbr_store == \E v \in RegVals(REG_LCR) : store_8(REG_LCR, v) /\ UNCHANGED instr

rbr_host == host_input /\ delivered' <= RbrInput

\* loads of RBR, and of LSR as the guest polls for data
rbr_load ==
    \E va \in {REG_RBR, REG_LSR}, v0 \in CallerVals :
        load_8(va, v0) /\ UNCHANGED instr

NextRbr ==
    \/ rbr_store
    \/ rbr_load
    \/ mainloop_alive
    \/ rbr_host

SpecRbr == Init /\ [][NextRbr]_vars

\* The end-to-end scenario of the specification, section 8: the calls the
\* foreground thread makes, in order; the host delivers 0x41 after the
\* stores and service() is called once the poll loop has queued it.
Scenario ==
    << [op |-> "store", va |-> 3, v |-> 131],
       [op |-> "store", va |-> 1, v |-> 0],
       [op |-> "store", va |-> 0, v |-> 1],
       [op |-> "store", va |-> 3, v |-> 3],
       [op |-> "store", va |-> 1, v |-> 1],
       [op |-> "service", va |-> 0, v |-> 0],
       [op |-> "load", va |-> 5, v |-> 0],
       [op |-> "load", va |-> 0, v |-> 0],
       [op |-> "load", va |-> 5, v |-> 0] >>

scenario_call ==
    /\ scen < Len(Scenario)
    /\ LET s == Scenario[scen + 1] IN
         CASE s.op = "store" -> store_8(s.va, s.v)
           [] s.op = "service" -> has_char(queue) /\ service
           [] s.op = "load" -> \E v0 \in CallerVals : load_8(s.va, v0)
    /\ scen' = scen + 1

scenario_host ==
    /\ scen < Len(Scenario)
    /\ Scenario[scen + 1].op = "service"
    /\ host_input
    /\ delivered' <= 1

NextScenario ==
    \/ scenario_call
    \/ scenario_host
    \/ shutdown
    \/ mainloop

SpecScenario == Init /\ [][NextScenario]_vars

\* The console's life: the guest transmits, the emulator suspends and
\* resumes, the host types, and the device is destroyed.  The console
\* thread is scheduled fairly, and a shutdown() that has begun goes on; a
\* poll that nothing wakes stays blocked.
LifeInput == 1

guest_thr1 ==
    store_8(REG_THR, 65) /\ Len(written') <= MaxWrites /\ UNCHANGED instr

life_host == host_input /\ delivered' <= LifeInput

NextLife ==
    \/ guest_thr1
    \/ suspend
    \/ resume
    \/ shutdown
    \/ mainloop
    \/ life_host

SpecLife ==
    /\ Init
    /\ [][NextLife]_vars
    /\ WF_vars(mainloop_run)
    /\ WF_vars(shutdown_write \/ shutdown_join)

\* Input during suspension: the emulator suspends and resumes the console,
\* and the host types only while the console is suspended (suspend() has
\* returned and resume() has not been called).
susp_host ==
    /\ suspended
    /\ fpc = "idle"
    /\ host_input
    /\ delivered' <= LifeInput

NextSuspend ==
    \/ suspend
    \/ resume
    \/ guest_rbr
    \/ mainloop_alive
    \/ susp_host

SpecSuspend == Init /\ [][NextSuspend]_vars

(***************************************************************************)
(* Properties.                                                             *)
(***************************************************************************)
NotNul(b) == b # 0

\* the guest's bytes in s: the null byte is the one shutdown() writes
GuestBytes(s) == SelectSeq(s, NotNul)

\* the bytes the host has delivered, in arrival order
Delivered == [k \in 1..delivered |-> InputByte(k)]

\* the input buffer as the u8 values read_char() returns
QueueBytes == [i \in 1..Len(queue) |-> ToU8(queue[i])]

\* the register set c with the DLAB bit of LCR cleared
Unbank(c) == [c EXCEPT !.lcr = IF Banked(c) THEN c.lcr - LCR_DLAB ELSE c.lcr]

\* C1: the bytes stored to THR reach the host output exactly, in write
\* order: at every moment each byte stored so far has been written to the
\* host output or is still in the wakeup pipe, and once the console thread
\* has exited the host output holds exactly the bytes stored.
C1_RelayExact ==
    /\ GuestBytes(out) \o GuestBytes(pipe) = written
    /\ tpc = "done" => GuestBytes(out) = written

\* C2: the bytes delivered on host input are what the loads of RBR return,
\* in arrival order, none lost or duplicated: every byte delivered so far
\* has been returned by a load of RBR, is in the input buffer, or is still
\* pending on host input; and has_char() tells whether the buffer is empty.
C2_InputExact ==
    /\ rbrlog \o QueueBytes \o hostin = Delivered
    /\ has_char(queue) <=> queue # <<>>

\* C3: in the end-to-end scenario, service() signals the interrupt line, the
\* next load of LSR has data-available set, the load of RBR returns 0x41 and
\* the following load of LSR has data-available clear.
C3_Scenario ==
    /\ scen = 6 => signalled
    /\ scen = 7 => TestBit(val, LSR_DA)
    /\ scen = 8 => val = 65
    /\ scen = 9 => ~TestBit(val, LSR_DA)

\* C4: with DLAB set, a store to address 3 of a value with bit 7 clear makes
\* LCR that value and leaves DLL and DLM as they were.
C4_ClearDlab ==
    Banked(com) =>
        \A v \in {x \in AllVals : ~TestBit(x, LCR_DLAB)} :
            LET c == store_value(com, REG_LCR, v) IN
                c.lcr = v /\ c.dll = com.dll /\ c.dlm = com.dlm

\* C5: with DLAB set, a store to address 0 changes only DLL and a store to
\* address 1 changes only DLM; no byte goes to write_char and the input
\* buffer is untouched.
C5_BankedStore ==
    [][\A v \in RegVals(REG_DLL) :
          /\ (DLAB /\ store_8(REG_DLL, v)) =>
                /\ com' = [com EXCEPT !.dll = v]
                /\ UNCHANGED <<written, pipe, out, wfd, queue, hostin, rbrlog>>
          /\ (DLAB /\ store_8(REG_DLM, v)) =>
                /\ com' = [com EXCEPT !.dlm = v]
                /\ UNCHANGED <<written, pipe, out, wfd, queue, hostin, rbrlog>>
      ]_vars

\* C5 witness: DLL and DLM were stored with DLAB set while a byte is buffered
C5_Witness ==
    Banked(com) /\ com.dll = 131 /\ com.dlm = 131 /\ com.thr = 0 /\ queue # <<>>

\* C6: at addresses 2 to 7 a load returns the same value, and a store has
\* the same effect on the registers, whether DLAB is set or clear (the DLAB
\* bit of LCR itself apart).
C6_Unbanked ==
    Banked(com) =>
        \A va \in 2..7 :
            /\ \A v0 \in CallerVals :
                  load_value(com, queue, va, v0) =
                      IF va = REG_LCR THEN com.lcr
                      ELSE load_value(Unbank(com), queue, va, v0)
            /\ \A v \in AllVals :
                  store_value(com, va, v) =
                      [store_value(Unbank(com), va, v) EXCEPT
                          !.lcr = IF va = REG_LCR THEN v ELSE com.lcr]

\* C7: a load of address 5 has THR-empty set, and data-available set exactly
\* when the input buffer is non-empty.
C7_Lsr ==
    \A v0 \in CallerVals :
        LET r == load_value(com, queue, REG_LSR, v0) IN
            /\ TestBit(r, LSR_RE)
            /\ TestBit(r, LSR_DA) <=> queue # <<>>

\* C8: service() signals the interrupt line exactly when IER has the
\* received-data bit set and the input buffer is non-empty, and it changes
\* no register and consumes no buffered byte.
C8_Service ==
    [][service =>
          /\ signalled' <=> (com.ier % 2 = 1 /\ Len(queue) > 0)
          /\ UNCHANGED <<com, val, queue, hostin, pipe, out, rbrlog>>
      ]_vars

\* C8 witness: service() has signalled with IER's bit set and a byte buffered
C8_Witness == signalled /\ com.ier = 3 /\ queue # <<>>

\* C9: a shutdown() that has begun returns: the poll loop exits and the
\* join completes.
C9_ShutdownReturns == (fpc = "shutdown_write") ~> (fpc = "joined")

\* C9 witness: shutdown() has returned though it was called while the
\* console was suspended, a byte was pending on host input and the guest
\* had written more bytes than the wakeup pipe holds
C9_Witness ==
    /\ fpc = "joined"
    /\ suspended
    /\ hostin # <<>>
    /\ Len(written) > PipeCap

\* C10: after shutdown() has returned the host terminal is in the mode it had
\* before the console thread was created.
C10_Restored == fpc = "joined" => tio = OrigTio

\* what a caller can observe of the terminal side of the bridge: the
\* suspended flag, the terminal's mode and the mode saved for the restore
Observable(b) == <<b.suspended, b.tio, b.old_tio>>

\* C11: suspend() and resume() are idempotent: between calls, two calls in a
\* row leave the suspended flag, the terminal's mode and the saved mode as
\* one call does.
C11_Idempotent ==
    fpc = "idle" =>
        /\ Observable(suspend_value(suspend_value(console_state)))
              = Observable(suspend_value(console_state))
        /\ Observable(resume_value(resume_value(console_state)))
              = Observable(resume_value(console_state))

\* C12: with DLAB clear, a load of address 1 returns the stored IER, whether
\* or not a byte is buffered.
C12_LoadIer ==
    ~Banked(com) =>
        \A v0 \in CallerVals : load_value(com, queue, REG_IER, v0) = com.ier

\* C13: with DLAB clear, a load of address 2 returns IIR_RX_RDY when the
\* input buffer is non-empty and IIR_TX_RDY when it is empty.
C13_LoadIir ==
    ~Banked(com) =>
        \A v0 \in CallerVals :
            load_value(com, queue, REG_IIR, v0) =
                IF queue # <<>> THEN IIR_RX_RDY ELSE IIR_TX_RDY

\* C14: a byte that arrives on host input while the console is suspended is
\* never appended to the input buffer, during the suspension or after a
\* later resume(): when every byte arrives during a suspension, the input
\* buffer stays empty and no load of RBR returns a byte.
C14_Discarded == queue = <<>> /\ rbrlog = <<>>

\* C15: once suspend() has returned and until resume() is called, the
\* console thread reads no byte of host input and appends none to the input
\* buffer.
C15_NoReadSuspended ==
    [][(suspended /\ fpc = "idle") =>
          /\ Len(queue') <= Len(queue)
          /\ Len(hostin') >= Len(hostin)
      ]_vars

\* C16: IER always has its upper four bits zero: a store to address 1 with
\* DLAB clear makes it the value stored masked with 0x0f, and no other load,
\* store or service() call changes it.
C16_IerMasked ==
    /\ [](com.ier \in 0..15)
    /\ [][
          /\ \A v \in IerVals :
                (~DLAB /\ store_8(REG_IER, v)) => com'.ier = BitAnd(v, 15)
          /\ com'.ier # com.ier =>
                \E v \in IerVals : ~DLAB /\ store_8(REG_IER, v)
       ]_vars

\* C16 witness: IER holds a masked value after a store of 0x83, a service()
\* call that signalled and a load of RBR that returned a byte
C16_Witness == com.ier = 3 /\ signalled /\ rbrlog # <<>> /\ val = 65

\* C17: with DLAB clear, a load of address 0 with a byte buffered removes
\* the oldest byte, stores it in RBR and returns it; with the buffer empty it
\* removes nothing and returns RBR as it is; read_char() on an empty buffer
\* returns 0.
C17_LoadRbr ==
    /\ [](read_char(<<>>) = 0)
    /\ [][\A v0 \in CallerVals :
            (~DLAB /\ load_8(REG_RBR, v0)) =>
                IF queue # <<>>
                THEN /\ queue' = Tail(queue)
                     /\ com' = [com EXCEPT !.rbr = (Head(queue) + 256) % 256]
                     /\ val' = com'.rbr
                ELSE /\ queue' = queue
                     /\ com' = com
                     /\ val' = com.rbr
       ]_vars

\* C17 witness: two bytes were popped in arrival order, the second above
\* 0x7f, and RBR caches the last one with the buffer empty
C17_Witness ==
    /\ rbrlog = <<65, 192>>
    /\ queue = <<>>
    /\ com.rbr = 192
    /\ val = 192
    /\ ~Banked(com)

\* C18: the poll loop never busy-polls: an iteration whose poll returned
\* with a source ready consumes a byte or leaves the loop.  The iteration
\* that ends at 'if (suspended) continue;' has read a byte only if the pipe
\* was ready (revents[1]); it has not read standard input.
C18_NoBusyPoll ==
    [][(/\ tpc = "check_suspended"
        /\ tpc' = "while"
        /\ (revents[1] \/ revents[2])) => revents[1]
      ]_vars

\* C19: every write the foreground thread makes through write_char() or
\* shutdown() is issued on the pipe open_pipe() created: never while
\* pipefds[1] still holds 0, never after close_pipe().
C19_WritesToPipe == wfd \in {"none", "open"}

\* the console thread is inside its loop
InLoop == tpc \in {"while", "poll", "check_running", "relay", "check_suspended", "stdin"}

\* C20: while no suspend(), resume() or thread setup or teardown is in
\* progress and the console thread is running, the terminal is in its
\* original mode if suspended is true and in raw mode if it is false.
C20_ModeTracksFlag ==
    (fpc = "idle" /\ InLoop /\ running) =>
        tio = IF suspended THEN OrigTio ELSE OrigTio \ {"ICANON", "ECHO"}

====
